---------------------------- MODULE Spec2Model ----------------------------
(***************************************************************************)
(* A model of the booking query facade (BookingRepository,                 *)
(* packages/lib/server/repository/booking.ts) and of the recent-feedback   *)
(* display component (RecentFeedbackTable).                                *)
(*                                                                         *)
(* The relational tables are state: `bookings` is the Booking table with   *)
(* its attendees joined in.  Every repository method is a process whose    *)
(* awaits are the points at which the storage engine answers a query.      *)
(***************************************************************************)
EXTENDS Integers, Sequences, FiniteSets, TLC

(***************************************************************************)
(* Bounds of the model.                                                    *)
(***************************************************************************)
\* number of rows of the Booking table
MaxBookings == 2
\* timestamps are 0..MaxTime
MaxTime == 2
\* a multi-select answer holds at most MaxOptions option ids
MaxOptions == 2
\* recentRatings returns at most MaxRatings rows
MaxRatings == 3

(***************************************************************************)
(* Values.                                                                 *)
(***************************************************************************)
\* A nullable id: database ids are positive, `null`/`undefined` is 0 (all the
\* null tests on ids in the source are truthiness tests, `!booking.userId`).
NULL == 0

\* An optional non-id value (`Date | undefined`, `boolean | null`): the empty
\* sequence when absent, a one-element sequence when present.
None == <<>>
Some(v) == <<v>>
IsSome(o) == Len(o) > 0
Val(o) == o[1]

BookingIds == 1..MaxBookings
Times == 0..MaxTime
UserIds == {1, 2}
Emails == {"a@cal", "b@cal"}
TeamIds == {1, 2}
EventTypeIds == {1, 2, 3, 4}

BookingStatus == {"PENDING", "ACCEPTED", "CANCELLED"}

\* The EventType rows the bookings refer to: a team event type that needs a
\* confirmation which blocks the slot, a managed child of team 1, a team-2
\* event type, and a personal event type.
EventTypes ==
  [e \in EventTypeIds |->
     CASE e = 1 -> [id |-> 1, teamId |-> 1, parentTeamId |-> NULL,
                    requiresConfirmation |-> TRUE,
                    requiresConfirmationWillBlockSlot |-> TRUE]
       [] e = 2 -> [id |-> 2, teamId |-> NULL, parentTeamId |-> 1,
                    requiresConfirmation |-> TRUE,
                    requiresConfirmationWillBlockSlot |-> FALSE]
       [] e = 3 -> [id |-> 3, teamId |-> 2, parentTeamId |-> NULL,
                    requiresConfirmation |-> FALSE,
                    requiresConfirmationWillBlockSlot |-> TRUE]
       [] OTHER -> [id |-> 4, teamId |-> NULL, parentTeamId |-> NULL,
                    requiresConfirmation |-> FALSE,
                    requiresConfirmationWillBlockSlot |-> FALSE]]

\* A set of rows as the list a findMany returns: in id order
RECURSIVE SortById(_)
SortById(S) ==
  IF S = {} THEN <<>>
  ELSE LET m == CHOOSE r \in S : \A q \in S : r.id <= q.id
       IN <<m>> \o SortById(S \ {m})

VARIABLES
  bookings,      \* the Booking table: id -> row
  \* findAllExistingBookingsForEventTypeBetween
  fPc,           \* where the call is
  fArgs,         \* its arguments
  fPending,      \* the reads issued and not yet answered
  fIssued,       \* the reads issued
  resultOne,     \* the answer of the owner read
  resultTwo,     \* the answer of the attendee read
  resultThree,   \* the answer of the pending read
  fReturn,       \* the list the call returned
  fChanged,      \* whether another request wrote to the table during the call
  \* getAllAcceptedTeamBookingsOfUser and getAllAcceptedTeamBookingsOfUsers
  tArgs,         \* the parameters, shouldReturnCount apart
  tCount,        \* what the call with shouldReturnCount returned, if made
  tList,         \* what the call without shouldReturnCount returned, if made
  \* getAllBookingsForRoundRobin
  rrPc,          \* where the call is
  rrArgs,        \* its arguments
  allBookings,   \* the answer of its read
  queueBookings, \* the list the call returned
  \* doesUserIdHaveAccessToBooking
  aPc,           \* where the call is
  aArgs,         \* its arguments
  adminOf,       \* the pairs <<user, team>> isAdminOfTeamOrParentOrg answers true for
  booking,       \* the answer of its findUnique
  aReturn,       \* what the call returned
  aAsked,        \* the isAdminOfTeamOrParentOrg calls it made
  \* RecentFeedbackTable
  qParams,       \* the insightsBookingParams the query is made with
  qStatus,       \* the status of the recentRatings query
  qData,         \* its data
  qFetching,     \* whether a fetch is in flight
  qStale,        \* whether the data is older than staleTime
  rendered       \* what the component rendered last

fVars == <<fPc, fArgs, fPending, fIssued, resultOne, resultTwo, resultThree, fReturn, fChanged>>
tVars == <<tArgs, tCount, tList>>
rrVars == <<rrPc, rrArgs, allBookings, queueBookings>>
aVars == <<aPc, aArgs, adminOf, booking, aReturn, aAsked>>
qVars == <<qParams, qStatus, qData, qFetching, qStale, rendered>>
vars == <<bookings, fVars, tVars, rrVars, aVars, qVars>>

\* A specification runs one operation; the variables of the others stay as
\* these leave them.
FindOff ==
  /\ fPc = "off" /\ fArgs = <<>> /\ fPending = {} /\ fIssued = {}
  /\ resultOne = <<>> /\ resultTwo = <<>> /\ resultThree = <<>>
  /\ fReturn = <<>> /\ fChanged = FALSE
TeamOff == tArgs = <<>> /\ tCount = <<>> /\ tList = <<>>
RoundRobinOff == rrPc = "off" /\ rrArgs = <<>> /\ allBookings = <<>> /\ queueBookings = <<>>
AccessOff ==
  /\ aPc = "off" /\ aArgs = <<>> /\ adminOf = {} /\ booking = <<>>
  /\ aReturn = <<>> /\ aAsked = <<>>
FeedbackOff ==
  /\ qParams = <<>> /\ qStatus = "off" /\ qData = <<>> /\ qFetching = FALSE /\ qStale = FALSE
  /\ rendered = <<>>

(***************************************************************************)
(* The Booking table.                                                      *)
(***************************************************************************)
\* An attendee row joined to its booking
Attendee(email, noShow) == [email |-> email, noShow |-> noShow]

\* A booking row.  `routed` is the routing-form response the booking was
\* routed from (routedFromRoutingFormReponse), None when there is none.
Booking(id, status, userId, noShowHost, attendees, startTime, endTime, createdAt, eventTypeId, routed) ==
  [id |-> id, uid |-> <<"uid", id>>, status |-> status, userId |-> userId,
   noShowHost |-> noShowHost, attendees |-> attendees, startTime |-> startTime,
   endTime |-> endTime, createdAt |-> createdAt, eventTypeId |-> eventTypeId,
   routed |-> routed]

\* prisma.booking.findMany({ where }) without a select: the rows whose ids
\* satisfy the where clause, in id order
FindMany(where) == SortById({bookings[i] : i \in where})

\* The tables of MaxBookings rows drawn from a set of rows: the row at id i
\* gets the id i and its uid
Tables(Rows) ==
  {[i \in BookingIds |-> [f[i] EXCEPT !.id = i, !.uid = <<"uid", i>>]] :
     f \in [BookingIds -> Rows]}

(***************************************************************************)
(* findAllExistingBookingsForEventTypeBetween                              *)
(***************************************************************************)
\* Array.from(userIdAndEmailMap.keys()) and .values()
MapKeys(m) == DOMAIN m
MapValues(m) == {m[k] : k \in DOMAIN m}

\* sharedQuery
SharedQuery(b, a) ==
  /\ b.startTime <= a.endDate
  /\ b.endTime >= a.startDate
  /\ b.status \in {"ACCEPTED"}

\* the where clause of currentBookingsAllUsersQueryOne
WhereQueryOne(b, a) ==
  /\ SharedQuery(b, a)
  /\ b.userId \in MapKeys(a.userIdAndEmailMap)

\* the where clause of currentBookingsAllUsersQueryTwo
WhereQueryTwo(b, a) ==
  /\ SharedQuery(b, a)
  /\ \E at \in b.attendees : at.email \in MapValues(a.userIdAndEmailMap)

\* the where clause of currentBookingsAllUsersQueryThree
WhereQueryThree(b, a) ==
  /\ b.startTime <= a.endDate
  /\ b.endTime >= a.startDate
  /\ b.eventTypeId # NULL
  /\ EventTypes[b.eventTypeId].id = a.eventTypeId
  /\ EventTypes[b.eventTypeId].requiresConfirmation = TRUE
  /\ EventTypes[b.eventTypeId].requiresConfirmationWillBlockSlot = TRUE
  /\ b.status \in {"PENDING"}

\* bookingsSelect: what a returned booking carries (the status is not selected)
BookingsSelect(b) ==
  [id |-> b.id, uid |-> b.uid, userId |-> b.userId, startTime |-> b.startTime,
   endTime |-> b.endTime, attendees |-> b.attendees, eventTypeId |-> b.eventTypeId]

SelectAll(s) == [i \in 1..Len(s) |-> BookingsSelect(s[i])]

\* the read with number n of the three, answered on the table as it is now
QueryAnswer(n, a) ==
  CASE n = 1 -> SelectAll(FindMany({j \in DOMAIN bookings : WhereQueryOne(bookings[j], a)}))
    [] n = 2 -> SelectAll(FindMany({j \in DOMAIN bookings : WhereQueryTwo(bookings[j], a)}))
    [] OTHER -> SelectAll(FindMany({j \in DOMAIN bookings : WhereQueryThree(bookings[j], a)}))

\* KeepInResultTwo without the organizer test
KeepInResultTwo_keepAll(bk, m) == TRUE

\* the predicate of resultTwo.filter: keep a booking unless its organizer is
\* one of its attendees
KeepInResultTwo(bk, m) ==
  IF bk.userId = NULL THEN TRUE
  ELSE ~ \E at \in bk.attendees :
           bk.userId \in DOMAIN m /\ at.email = m[bk.userId]

ResultTwoWithOrganizersRemoved(two, m) ==
  SelectSeq(two, LAMBDA bk : KeepInResultTwo(bk, m))

\* the reads the call issues: the third only for a truthy eventTypeId
ReadsIssued(a) == {1, 2} \cup (IF a.eventTypeId # NULL THEN {3} ELSE {})

\* the call creates the three queries and awaits Promise.all of them
FindStart ==
  /\ fPc = "idle"
  /\ fPc' = "reading"
  /\ fIssued' = ReadsIssued(fArgs)
  /\ fPending' = ReadsIssued(fArgs)
  /\ UNCHANGED <<bookings, fArgs, resultOne, resultTwo, resultThree, fReturn,
                 fChanged>>
  /\ UNCHANGED <<tVars, rrVars, aVars, qVars>>

\* the storage engine answers one of the reads
FindAnswer(n) ==
  /\ fPc = "reading"
  /\ n \in fPending
  /\ fPending' = fPending \ {n}
  /\ resultOne' = IF n = 1 THEN QueryAnswer(1, fArgs) ELSE resultOne
  /\ resultTwo' = IF n = 2 THEN QueryAnswer(2, fArgs) ELSE resultTwo
  /\ resultThree' = IF n = 3 THEN QueryAnswer(3, fArgs) ELSE resultThree
  /\ UNCHANGED <<bookings, fPc, fArgs, fIssued, fReturn, fChanged>>
  /\ UNCHANGED <<tVars, rrVars, aVars, qVars>>

\* the storage engine fails one of the reads: Promise.all rejects and the
\* call throws the engine's error; what the other reads answer is dropped
FindReject(n) ==
  /\ fPc = "reading"
  /\ n \in fPending
  /\ fPc' = "threw"
  /\ fPending' = {}
  /\ resultOne' = <<>>
  /\ resultTwo' = <<>>
  /\ resultThree' = <<>>
  /\ UNCHANGED <<bookings, fArgs, fIssued, fReturn, fChanged>>
  /\ UNCHANGED <<tVars, rrVars, aVars, qVars>>

\* FindReturn racing the reads (Promise.race for Promise.all): the call returns
\* on the first answer
FindReturn_race ==
  /\ fPc = "reading"
  /\ fPending # fIssued
  /\ fPc' = "returned"
  /\ fReturn' = resultOne
                \o SelectSeq(resultTwo,
                             LAMBDA bk : KeepInResultTwo(bk, fArgs.userIdAndEmailMap))
                \o resultThree
  /\ UNCHANGED <<bookings, fArgs, fPending, fIssued, resultOne, resultTwo,
                 resultThree, fChanged>>
  /\ UNCHANGED <<tVars, rrVars, aVars, qVars>>

\* Promise.all resolved: de-duplicate the attendee results and merge
FindReturn ==
  /\ fPc = "reading"
  /\ fPending = {}
  /\ fPc' = "returned"
  /\ fReturn' = resultOne
                \o ResultTwoWithOrganizersRemoved(resultTwo, fArgs.userIdAndEmailMap)
                \o resultThree
  /\ UNCHANGED <<bookings, fArgs, fPending, fIssued, resultOne, resultTwo,
                 resultThree, fChanged>>
  /\ UNCHANGED <<tVars, rrVars, aVars, qVars>>

\* the life of a booking's status: a pending booking is confirmed, a pending
\* or accepted one is cancelled
StatusStep(from, to) ==
  \/ from = "PENDING" /\ to = "ACCEPTED"
  \/ from \in {"PENDING", "ACCEPTED"} /\ to = "CANCELLED"

\* another request confirms or cancels a booking while the call is in flight
\* (the reads are not in a transaction)
WriterSetStatus(id, s) ==
  /\ fPc = "reading"
  /\ StatusStep(bookings[id].status, s)
  /\ bookings' = [bookings EXCEPT ![id].status = s]
  /\ fChanged' = TRUE
  /\ UNCHANGED <<fPc, fArgs, fPending, fIssued, resultOne, resultTwo,
                 resultThree, fReturn>>
  /\ UNCHANGED <<tVars, rrVars, aVars, qVars>>

\* User.email is unique: the maps are the restrictions of one pairing
UserEmail == [u \in UserIds |-> IF u = 1 THEN "a@cal" ELSE "b@cal"]

FindMaps == {[u \in K |-> UserEmail[u]] : K \in SUBSET UserIds}

\* The call is checked on one concern at a time.  Who: bookings that span
\* every window, of every organizer and attendance, pending or accepted (a
\* writer cancels them), for every map and event type.
WhoRows ==
  {Booking(NULL, st, u, None, {Attendee(e, FALSE) : e \in es}, 0, MaxTime, 0, 1, None) :
     st \in {"PENDING", "ACCEPTED"}, u \in {NULL} \cup UserIds, es \in SUBSET Emails}

WhoArgs ==
  [startDate : {0}, endDate : {MaxTime}, eventTypeId : {NULL, 1, 2},
   userIdAndEmailMap : FindMaps]

\* When and of which type: bookings of user 1 that user 2 attends, at every
\* time and of every event type, for every window.
WhenRows ==
  {Booking(NULL, st, 1, None, {Attendee("b@cal", FALSE)}, t1, t2, t1, et, None) :
     st \in {"PENDING", "ACCEPTED"}, t1 \in Times, t2 \in Times, et \in {NULL, 1, 2, 3}}

WhenArgs ==
  [startDate : Times, endDate : Times, eventTypeId : {1}, userIdAndEmailMap : {UserEmail}]

FindCases ==
  (Tables(WhoRows) \X WhoArgs)
  \cup (Tables({r \in WhenRows : r.startTime < r.endTime})
          \X {a \in WhenArgs : a.startDate <= a.endDate})

FindInit ==
  /\ \E c \in FindCases : bookings = c[1] /\ fArgs = c[2]
  /\ fPc = "idle"
  /\ fPending = {}
  /\ fIssued = {}
  /\ resultOne = <<>>
  /\ resultTwo = <<>>
  /\ resultThree = <<>>
  /\ fReturn = <<>>
  /\ fChanged = FALSE
  /\ TeamOff /\ RoundRobinOff /\ AccessOff /\ FeedbackOff

FindNext ==
  \/ FindStart
  \/ \E n \in {1, 2, 3} : FindAnswer(n)
  \/ \E n \in {1, 2, 3} : FindReject(n)
  \/ FindReturn
  \/ \E id \in BookingIds, s \in BookingStatus : WriterSetStatus(id, s)

SpecFind == FindInit /\ [][FindNext]_vars

(***************************************************************************)
(* getAllAcceptedTeamBookingsOfUser, getAllAcceptedTeamBookingsOfUsers     *)
(***************************************************************************)
\* prisma.booking.count({ where }): the number of ids satisfying the where clause
Count(where) == Cardinality(where)

\* baseWhere (the same in both methods)
BaseWhere(b, p) ==
  /\ b.status = "ACCEPTED"
  /\ b.startTime >= p.startDate
  /\ b.endTime <= p.endDate
  /\ (p.excludedUid # None => b.uid # p.excludedUid)

\* eventType: { teamId }
EventTypeOfTeam(b, teamId) == b.eventTypeId # NULL /\ EventTypes[b.eventTypeId].teamId = teamId

\* eventType: { parent: { teamId } }
EventTypeOfParentTeam(b, teamId) ==
  b.eventTypeId # NULL /\ EventTypes[b.eventTypeId].parentTeamId = teamId

\* getAllAcceptedTeamBookingsOfUser: the three where clauses
WhereCollectiveRoundRobinOwner(b, p) ==
  BaseWhere(b, p) /\ b.userId = p.user.id /\ EventTypeOfTeam(b, p.teamId)

WhereCollectiveRoundRobinBookingsAttendee(b, p) ==
  /\ BaseWhere(b, p)
  /\ \E at \in b.attendees : at.email = p.user.email
  /\ EventTypeOfTeam(b, p.teamId)

WhereManagedBookings(b, p) ==
  BaseWhere(b, p) /\ b.userId = p.user.id /\ EventTypeOfParentTeam(b, p.teamId)

\* getAllAcceptedTeamBookingsOfUsers: userIds, userEmails and the where clauses
UsersIds(p) == {p.users[i].id : i \in 1..Len(p.users)}
UsersEmails(p) == {p.users[i].email : i \in 1..Len(p.users)}

WhereCollectiveRoundRobinOwnerOfUsers(b, p) ==
  BaseWhere(b, p) /\ b.userId \in UsersIds(p) /\ EventTypeOfTeam(b, p.teamId)

WhereCollectiveRoundRobinBookingsAttendeeOfUsers(b, p) ==
  /\ BaseWhere(b, p)
  /\ \E at \in b.attendees : at.email \in UsersEmails(p)
  /\ EventTypeOfTeam(b, p.teamId)

WhereManagedBookingsOfUsers(b, p) ==
  BaseWhere(b, p) /\ b.userId \in UsersIds(p) /\ EventTypeOfParentTeam(b, p.teamId)

\* the three categories of either method
WhereOwner(b, p) ==
  IF p.method = "OfUser" THEN WhereCollectiveRoundRobinOwner(b, p)
  ELSE WhereCollectiveRoundRobinOwnerOfUsers(b, p)
WhereAttendee(b, p) ==
  IF p.method = "OfUser" THEN WhereCollectiveRoundRobinBookingsAttendee(b, p)
  ELSE WhereCollectiveRoundRobinBookingsAttendeeOfUsers(b, p)
WhereManaged(b, p) ==
  IF p.method = "OfUser" THEN WhereManagedBookings(b, p)
  ELSE WhereManagedBookingsOfUsers(b, p)

\* TotalNrOfBooking with the managed bookings counted whatever includeManagedEvents
TotalNrOfBooking_managedAlways(p) ==
  Count({j \in DOMAIN bookings : WhereOwner(bookings[j], p)}) + Count({j \in DOMAIN bookings : WhereAttendee(bookings[j], p)})
    + Count({j \in DOMAIN bookings : WhereManaged(bookings[j], p)})

\* the shouldReturnCount branch: three counts, summed
TotalNrOfBooking(p) ==
  LET collectiveRoundRobinBookingsOwner == Count({j \in DOMAIN bookings : WhereOwner(bookings[j], p)})
      collectiveRoundRobinBookingsAttendee == Count({j \in DOMAIN bookings : WhereAttendee(bookings[j], p)})
      managedBookings ==
        IF p.includeManagedEvents THEN Count({j \in DOMAIN bookings : WhereManaged(bookings[j], p)}) ELSE 0
  IN collectiveRoundRobinBookingsOwner + collectiveRoundRobinBookingsAttendee
       + managedBookings

\* the list branch: three findMany, concatenated
TeamBookingsList(p) ==
  LET collectiveRoundRobinBookingsOwner == FindMany({j \in DOMAIN bookings : WhereOwner(bookings[j], p)})
      collectiveRoundRobinBookingsAttendee == FindMany({j \in DOMAIN bookings : WhereAttendee(bookings[j], p)})
      managedBookings ==
        IF p.includeManagedEvents THEN FindMany({j \in DOMAIN bookings : WhereManaged(bookings[j], p)}) ELSE <<>>
  IN collectiveRoundRobinBookingsOwner \o collectiveRoundRobinBookingsAttendee
       \o managedBookings

\* the call with shouldReturnCount: true
GetAllAcceptedTeamBookingsCount ==
  /\ tArgs # <<>>
  /\ tCount = None
  /\ tCount' = Some(TotalNrOfBooking(tArgs))
  /\ UNCHANGED <<bookings, tArgs, tList, fVars, rrVars, aVars, qVars>>

\* the call without shouldReturnCount
GetAllAcceptedTeamBookingsList ==
  /\ tArgs # <<>>
  /\ tList = None
  /\ tList' = Some(TeamBookingsList(tArgs))
  /\ UNCHANGED <<bookings, tArgs, tCount, fVars, rrVars, aVars, qVars>>

User(u) == [id |-> u, email |-> UserEmail[u]]

\* The calls are checked on one concern at a time.  Who: accepted bookings
\* inside the window, of every organizer, attendance and event type, for
\* every user or list of users, team and includeManagedEvents.
TeamWhoRows ==
  {Booking(NULL, "ACCEPTED", u, None, {Attendee(e, FALSE) : e \in es}, 0, MaxTime, 0, et, None) :
     u \in {NULL} \cup UserIds, es \in SUBSET Emails, et \in {NULL, 1, 2, 3}}

TeamWhoParams ==
  [method : {"OfUser"}, user : {User(u) : u \in UserIds}, users : {<<>>},
   teamId : TeamIds, startDate : {0}, endDate : {MaxTime},
   excludedUid : {None}, includeManagedEvents : BOOLEAN]
  \cup
  [method : {"OfUsers"}, user : {User(1)},
   users : {<<>>, <<User(1)>>, <<User(1), User(2)>>},
   teamId : TeamIds, startDate : {0}, endDate : {MaxTime},
   excludedUid : {None}, includeManagedEvents : BOOLEAN]

\* When: team-1 bookings of user 1 of every status and time, for every
\* window and excludedUid.
TeamWhenRows ==
  {Booking(NULL, st, 1, None, {}, t1, t2, 0, 1, None) :
     st \in BookingStatus, t1 \in Times, t2 \in Times}

TeamWhenParams ==
  [method : {"OfUser", "OfUsers"}, user : {User(1)}, users : {<<User(1)>>},
   teamId : {1}, startDate : Times, endDate : Times,
   excludedUid : {None, <<"uid", 1>>}, includeManagedEvents : {TRUE}]

TeamCases ==
  (Tables(TeamWhoRows) \X TeamWhoParams)
  \cup (Tables({r \in TeamWhenRows : r.startTime < r.endTime})
          \X {p \in TeamWhenParams : p.startDate <= p.endDate})

TeamInit ==
  /\ \E c \in TeamCases : bookings = c[1] /\ tArgs = c[2]
  /\ tCount = None
  /\ tList = None
  /\ FindOff /\ RoundRobinOff /\ AccessOff /\ FeedbackOff

TeamNext ==
  \/ GetAllAcceptedTeamBookingsCount
  \/ GetAllAcceptedTeamBookingsList

SpecTeam == TeamInit /\ [][TeamNext]_vars

(***************************************************************************)
(* getAllBookingsForRoundRobin                                             *)
(***************************************************************************)
\* A routing-form answer or a selectedOptionIds: `number | string | string[]`.
\* The kind is kept so that `===` tells the string "1" from the number 1 and
\* a one-element array from its element.
StringValue(str) == [kind |-> "string", v |-> <<str>>]
NumberValue(digits) == [kind |-> "number", v |-> <<digits>>]
ArrayValue(strs) == [kind |-> "array", v |-> strs]

\* Array.isArray
IsArray(x) == x.kind = "array"

\* `x === y` for two values that are not both arrays: equal primitives of the
\* same type (an array is an object, never `===` a primitive)
StrictEquals(x, y) == x.kind = y.kind /\ x.kind # "array" /\ x.v = y.v

\* the users.map(...) of the where clause
UserIdsOf(users) == {users[i].id : i \in 1..Len(users)}
UserEmailsOf(users) == {users[i].email : i \in 1..Len(users)}

\* the OR of the where clause: the organizer is a candidate (and, unless
\* no-shows count, noShowHost is false or null), or an attendee is
WhereHostOrAttendee(b, a) ==
  \/ /\ b.userId \in UserIdsOf(a.users)
     /\ ~a.includeNoShowInRRCalculation =>
          (b.noShowHost = Some(FALSE) \/ b.noShowHost = None)
  \/ \E at \in b.attendees : at.email \in UserEmailsOf(a.users)

\* attendees: { some: { noShow: false } }, unless no-shows count
WhereAttendeeShowed(b, a) ==
  ~a.includeNoShowInRRCalculation => \E at \in b.attendees : at.noShow = FALSE

\* WhereStatusAndEventType without the status
WhereStatusAndEventType_anyStatus(b, a) == b.eventTypeId = a.eventTypeId

\* status: ACCEPTED, eventTypeId
WhereStatusAndEventType(b, a) ==
  b.status = "ACCEPTED" /\ b.eventTypeId = a.eventTypeId

\* WhereTimeWindow with the basis ignored: always the start time
WhereTimeWindow_startTimeOnly(b, a) ==
  IF IsSome(a.startDate) \/ IsSome(a.endDate)
  THEN /\ IsSome(a.startDate) => b.startTime >= Val(a.startDate)
       /\ IsSome(a.endDate) => b.startTime <= Val(a.endDate)
  ELSE TRUE

\* the time window: on createdAt for the CREATED_AT basis, else on startTime;
\* nothing when neither bound is given
WhereTimeWindow(b, a) ==
  IF IsSome(a.startDate) \/ IsSome(a.endDate)
  THEN IF a.rrTimestampBasis = "CREATED_AT"
       THEN /\ IsSome(a.startDate) => b.createdAt >= Val(a.startDate)
            /\ IsSome(a.endDate) => b.createdAt <= Val(a.endDate)
       ELSE /\ IsSome(a.startDate) => b.startTime >= Val(a.startDate)
            /\ IsSome(a.endDate) => b.startTime <= Val(a.endDate)
  ELSE TRUE

\* routedFromRoutingFormReponse: { chosenRouteId }, with virtualQueuesData
WhereChosenRoute(b, a) ==
  IsSome(a.virtualQueuesData) =>
    /\ IsSome(b.routed)
    /\ Val(b.routed).chosenRouteId = Val(a.virtualQueuesData).chosenRouteId

BuildWhereClauseForActiveBookings(b, a) ==
  /\ WhereHostOrAttendee(b, a)
  /\ WhereAttendeeShowed(b, a)
  /\ WhereStatusAndEventType(b, a)
  /\ WhereTimeWindow(b, a)
  /\ WhereChosenRoute(b, a)

\* orderBy: { createdAt: "desc" } (rows of one createdAt in id order)
RECURSIVE SortByCreatedAtDesc(_)
SortByCreatedAtDesc(S) ==
  IF S = {} THEN <<>>
  ELSE LET m == CHOOSE r \in S :
                  \A q \in S : r.createdAt > q.createdAt
                               \/ (r.createdAt = q.createdAt /\ r.id <= q.id)
       IN <<m>> \o SortByCreatedAtDesc(S \ {m})

\* the select of the read
RoundRobinSelect(b) ==
  [id |-> b.id, attendees |-> b.attendees, userId |-> b.userId, createdAt |-> b.createdAt,
   status |-> b.status, startTime |-> b.startTime,
   routedFromRoutingFormReponse |-> b.routed]

\* the answer of the findMany
AllBookings(a) ==
  LET rows == SortByCreatedAtDesc({bookings[i] :
                i \in {j \in DOMAIN bookings : BuildWhereClauseForActiveBookings(bookings[j], a)}})
  IN [i \in 1..Len(rows) |-> RoundRobinSelect(rows[i])]

\* response[fieldId].value throws a TypeError when the booking has no
\* response payload or the payload no entry for the field
ResponseValueThrows(bk, vq) ==
  \/ bk.routedFromRoutingFormReponse = None
  \/ vq.fieldOptionData.fieldId \notin DOMAIN Val(bk.routedFromRoutingFormReponse).response

ResponseValue(bk, vq) ==
  Val(bk.routedFromRoutingFormReponse).response[vq.fieldOptionData.fieldId].value

\* every(...) at the shorter length only (a prefix test)
SameOptions_prefix(responseValue, selectedOptionIds) ==
  IF IsArray(responseValue) /\ IsArray(selectedOptionIds)
  THEN \A index \in 1..Len(responseValue.v) :
         index <= Len(selectedOptionIds.v) /\ responseValue.v[index] = selectedOptionIds.v[index]
  ELSE StrictEquals(responseValue, selectedOptionIds)

\* the predicate of allBookings.filter once responseValue is read
SameOptions(responseValue, selectedOptionIds) ==
  IF IsArray(responseValue) /\ IsArray(selectedOptionIds)
  THEN /\ Len(responseValue.v) = Len(selectedOptionIds.v)
       /\ \A index \in 1..Len(responseValue.v) :
            responseValue.v[index] = selectedOptionIds.v[index]
  ELSE StrictEquals(responseValue, selectedOptionIds)

\* The call: the read is answered, and with virtualQueuesData the answer is
\* filtered; the filter throws on the first booking whose answer it cannot
\* read.
GetAllBookingsForRoundRobin ==
  /\ rrPc = "idle"
  /\ allBookings' = AllBookings(rrArgs)
  /\ IF rrArgs.virtualQueuesData = None
     THEN rrPc' = "done" /\ queueBookings' = allBookings'
     ELSE LET vq == Val(rrArgs.virtualQueuesData)
          IN IF \E i \in 1..Len(allBookings') : ResponseValueThrows(allBookings'[i], vq)
             THEN rrPc' = "threw" /\ queueBookings' = queueBookings
             ELSE /\ rrPc' = "done"
                  /\ queueBookings' =
                       SelectSeq(allBookings',
                                 LAMBDA bk : SameOptions(ResponseValue(bk, vq),
                                                         vq.fieldOptionData.selectedOptionIds))
  /\ UNCHANGED <<bookings, rrArgs, fVars, tVars, aVars, qVars>>

\* The call is checked on one concern of the where clause at a time, the rest
\* of the row and of the arguments being such that the query admits the row.
RRArgs(users, eventTypeId, startDate, endDate, vq, noShow, basis) ==
  [users |-> users, eventTypeId |-> eventTypeId, startDate |-> startDate,
   endDate |-> endDate, virtualQueuesData |-> vq,
   includeNoShowInRRCalculation |-> noShow, rrTimestampBasis |-> basis]

\* status and event type
RRStatusRows ==
  {Booking(NULL, st, 1, Some(FALSE), {Attendee("b@cal", FALSE)}, 1, 2, 0, et, None) :
     st \in BookingStatus, et \in {NULL, 1, 2}}

RRStatusArgs ==
  {RRArgs(<<User(1)>>, et, None, None, None, ns, "START_TIME") :
     et \in {1, 2}, ns \in BOOLEAN}

\* organizer, attendees and their no-show flags
RRAttendees ==
  {as \in SUBSET {Attendee(e, ns) : e \in Emails, ns \in BOOLEAN} :
     \A x, y \in as : x.email = y.email => x = y}

RRWhoRows ==
  {Booking(NULL, "ACCEPTED", u, nsh, as, 1, 2, 0, 1, None) :
     u \in {NULL} \cup UserIds, nsh \in {None, Some(FALSE), Some(TRUE)}, as \in RRAttendees}

RRWhoArgs ==
  {RRArgs(us, 1, None, None, None, ns, "START_TIME") :
     us \in {<<>>, <<User(1)>>, <<User(1), User(2)>>}, ns \in BOOLEAN}

\* creation and start times, window and basis
RRTimeRows ==
  {Booking(NULL, "ACCEPTED", 1, Some(FALSE), {Attendee("b@cal", FALSE)}, t1, t1 + 1, t0, 1, None) :
     t0 \in Times, t1 \in Times}

OptionalTimes == {None} \cup {Some(t) : t \in Times}

RRTimeArgs ==
  {RRArgs(<<User(1)>>, 1, sd, ed, None, FALSE, basis) :
     sd \in OptionalTimes, ed \in OptionalTimes, basis \in {"CREATED_AT", "START_TIME"}}

\* routing-form responses and the virtual queue
OptionLists == UNION {[1..n -> {"x", "y"}] : n \in 0..MaxOptions}

FormValues ==
  {StringValue("x"), StringValue("y"), StringValue("1"), NumberValue("1")}
  \cup {ArrayValue(l) : l \in OptionLists}

FormResponses ==
  {[f \in {"f1"} |-> [value |-> val]] : val \in FormValues}
  \cup {[f \in {"f2"} |-> [value |-> StringValue("x")]]}

RRRoutedRows ==
  {Booking(NULL, "ACCEPTED", 1, Some(FALSE), {Attendee("b@cal", FALSE)}, 1, 2, 0, 1, routed) :
     routed \in {None}
                \cup {Some([chosenRouteId |-> "r1", response |-> resp]) : resp \in FormResponses}
                \cup {Some([chosenRouteId |-> "r2",
                            response |-> [f \in {"f1"} |-> [value |-> StringValue("x")]]])}}

VirtualQueuesData(route, fieldId, selected) ==
  [chosenRouteId |-> route,
   fieldOptionData |-> [fieldId |-> fieldId, selectedOptionIds |-> selected]]

RRRoutedArgs ==
  {RRArgs(<<User(1)>>, 1, None, None, vq, FALSE, "START_TIME") :
     vq \in {None} \cup {Some(VirtualQueuesData("r1", "f1", sel)) : sel \in FormValues}}

RoundRobinCases ==
  (Tables(RRStatusRows) \X RRStatusArgs)
  \cup (Tables(RRWhoRows) \X RRWhoArgs)
  \cup (Tables(RRTimeRows) \X RRTimeArgs)
  \cup (Tables(RRRoutedRows) \X RRRoutedArgs)

RoundRobinInit ==
  /\ \E c \in RoundRobinCases : bookings = c[1] /\ rrArgs = c[2]
  /\ rrPc = "idle"
  /\ allBookings = <<>>
  /\ queueBookings = <<>>
  /\ FindOff /\ TeamOff /\ AccessOff /\ FeedbackOff

RoundRobinNext == GetAllBookingsForRoundRobin

SpecRoundRobin == RoundRobinInit /\ [][RoundRobinNext]_vars

(***************************************************************************)
(* doesUserIdHaveAccessToBooking                                           *)
(***************************************************************************)
\* prisma.booking.findUnique({ where: { id }, select: { userId, eventType:
\* { teamId } } }): None when there is no such booking
FindUniqueById(bookingId) ==
  IF bookingId \in DOMAIN bookings
  THEN LET b == bookings[bookingId]
       IN Some([userId |-> b.userId,
                eventType |-> IF b.eventTypeId = NULL THEN None
                              ELSE Some([teamId |-> EventTypes[b.eventTypeId].teamId])])
  ELSE None

\* UserRepository.isAdminOfTeamOrParentOrg: its answers are the table adminOf
IsAdminOfTeamOrParentOrg(userId, teamId) == <<userId, teamId>> \in adminOf

\* EarlyReturn without the test for the organizer
EarlyReturn_noOrganizer(found, userId) ==
  IF found = None THEN Some(FALSE)
  ELSE IF Val(found).eventType = None \/ Val(Val(found).eventType).teamId = NULL
       THEN Some(FALSE)
       ELSE None

\* the three early returns between the two awaits: Some(result), or None
\* when the call goes on to ask for the team role
EarlyReturn(found, userId) ==
  IF found = None THEN Some(FALSE)
  ELSE IF userId = Val(found).userId THEN Some(TRUE)
  ELSE IF Val(found).eventType = None \/ Val(Val(found).eventType).teamId = NULL
       THEN Some(FALSE)
       ELSE None

\* the findUnique is answered and the call runs to its return or to the
\* await of isAdminOfTeamOrParentOrg
AccessFindUnique ==
  /\ aPc = "idle"
  /\ booking' = FindUniqueById(aArgs.bookingId)
  /\ LET early == EarlyReturn(booking', aArgs.userId)
     IN IF early # None
        THEN aPc' = "done" /\ aReturn' = early /\ aAsked' = aAsked
        ELSE /\ aPc' = "asking"
             /\ aAsked' = Append(aAsked, [userId |-> aArgs.userId,
                                           teamId |-> Val(Val(booking').eventType).teamId])
             /\ aReturn' = aReturn
  /\ UNCHANGED <<bookings, aArgs, adminOf, fVars, tVars, rrVars, qVars>>

\* isAdminOfTeamOrParentOrg is answered and the call returns the answer
AccessIsAdmin ==
  /\ aPc = "asking"
  /\ aPc' = "done"
  /\ aReturn' = Some(IsAdminOfTeamOrParentOrg(aAsked[Len(aAsked)].userId,
                                               aAsked[Len(aAsked)].teamId))
  /\ UNCHANGED <<bookings, aArgs, adminOf, booking, aAsked, fVars, tVars, rrVars, qVars>>

\* bookings of every organizer and event type; the call is made for every
\* user, for every booking id and one that no booking has, under every
\* answer of the role check
AccessRows ==
  {Booking(NULL, "ACCEPTED", u, None, {}, 0, MaxTime, 0, et, None) :
     u \in {NULL} \cup UserIds, et \in {NULL} \cup EventTypeIds}

AccessInit ==
  /\ bookings \in Tables(AccessRows)
  /\ aArgs \in [userId : UserIds, bookingId : 1..(MaxBookings + 1)]
  /\ adminOf \in SUBSET (UserIds \X TeamIds)
  /\ aPc = "idle"
  /\ booking = None
  /\ aReturn = None
  /\ aAsked = <<>>
  /\ FindOff /\ TeamOff /\ RoundRobinOff /\ FeedbackOff

AccessNext ==
  \/ AccessFindUnique
  \/ AccessIsAdmin

SpecAccess == AccessInit /\ [][AccessNext]_vars

(***************************************************************************)
(* RecentFeedbackTable                                                     *)
(***************************************************************************)
\* what a render returns: null, <LoadingInsight />, or a ChartCard with its
\* children
Nothing == [tag |-> "null", title |-> "", children |-> <<>>]
LoadingInsight == [tag |-> "LoadingInsight", title |-> "", children |-> <<>>]
ChartCard(title, children) == [tag |-> "ChartCard", title |-> title, children |-> children]
FeedbackTable(data) == [tag |-> "FeedbackTable", data |-> data]

\* `!data`: undefined and null are falsy, an array is truthy even when empty
Falsy(data) == data = None

\* RecentFeedbackTable with an empty array taken for no data
RecentFeedbackTable_emptyIsNothing(isPending, isSuccess, data) ==
  IF isPending THEN LoadingInsight
  ELSE IF ~isSuccess \/ Falsy(data) \/ Val(data) = <<>> THEN Nothing
  ELSE ChartCard("recent_ratings", <<FeedbackTable(Val(data))>>)

\* the component, from what useQuery returned
RecentFeedbackTable(isPending, isSuccess, data) ==
  IF isPending THEN LoadingInsight
  ELSE IF ~isSuccess \/ Falsy(data) THEN Nothing
  ELSE ChartCard("recent_ratings", <<FeedbackTable(Val(data))>>)

\* the component renders again on every change of the query
Render(status, data) == RecentFeedbackTable(status = "pending", status = "success", data)

\* what recentRatings can answer: a list of rating rows, or no data
RatingRows == UNION {[1..n -> {[rating |-> 1], [rating |-> 5]}] : n \in 0..MaxRatings}
RatingsData == {None} \cup {Some(l) : l \in RatingRows}

\* the fetch in flight succeeds
FetchSucceeds(data) ==
  /\ qFetching
  /\ qStatus' = "success"
  /\ qData' = data
  /\ qFetching' = FALSE
  /\ qStale' = FALSE
  /\ rendered' = Render(qStatus', qData')
  /\ UNCHANGED <<qParams, bookings, fVars, tVars, rrVars, aVars>>

\* the fetch in flight fails: the query keeps the data it had
FetchFails ==
  /\ qFetching
  /\ qStatus' = "error"
  /\ qFetching' = FALSE
  /\ rendered' = Render(qStatus', qData)
  /\ UNCHANGED <<qParams, qData, qStale, bookings, fVars, tVars, rrVars, aVars>>

\* staleTime (180000 ms) passes since the data arrived
StaleTimePasses ==
  /\ qStatus = "success"
  /\ ~qFetching
  /\ ~qStale
  /\ qStale' = TRUE
  /\ UNCHANGED <<qParams, qStatus, qData, qFetching, rendered, bookings, fVars, tVars,
                 rrVars, aVars>>

\* the query is fetched again, in the background, for stale data or after a
\* failure (a remount or a reconnect; not a window focus:
\* refetchOnWindowFocus is false)
Refetch ==
  /\ ~qFetching
  /\ qStale \/ qStatus = "error"
  /\ qFetching' = TRUE
  /\ UNCHANGED <<qParams, qStatus, qData, qStale, rendered, bookings, fVars, tVars,
                 rrVars, aVars>>

\* useInsightsBookingParameters returns other parameters: a new query
ParamsChange(params) ==
  /\ params # qParams
  /\ qParams' = params
  /\ qStatus' = "pending"
  /\ qData' = None
  /\ qFetching' = TRUE
  /\ qStale' = FALSE
  /\ rendered' = Render(qStatus', qData')
  /\ UNCHANGED <<bookings, fVars, tVars, rrVars, aVars>>

\* the component mounts: the query is pending and its first fetch in flight
FeedbackInit ==
  /\ qParams = "week"
  /\ qStatus = "pending"
  /\ qData = None
  /\ qFetching = TRUE
  /\ qStale = FALSE
  /\ rendered = Render("pending", None)
  /\ bookings = <<>>
  /\ FindOff /\ TeamOff /\ RoundRobinOff /\ AccessOff

FeedbackNext ==
  \/ \E data \in RatingsData : FetchSucceeds(data)
  \/ FetchFails
  \/ StaleTimePasses
  \/ Refetch
  \/ \E params \in {"week", "month"} : ParamsChange(params)

SpecFeedback == FeedbackInit /\ [][FeedbackNext]_vars

(***************************************************************************)
(* Properties of findAllExistingBookingsForEventTypeBetween                *)
(***************************************************************************)
\* how often the booking with this id occurs in a list
Occurrences(list, id) == Cardinality({i \in 1..Len(list) : list[i].id = id})

Ids(list) == {list[i].id : i \in 1..Len(list)}

\* an accepted booking in the window whose organizer is a key of the map and
\* is also one of its attendees, under the email the map gives
SelfBooked(b, a) ==
  /\ b.status = "ACCEPTED"
  /\ b.startTime <= a.endDate /\ b.endTime >= a.startDate
  /\ b.userId \in DOMAIN a.userIdAndEmailMap
  /\ \E at \in b.attendees : at.email = a.userIdAndEmailMap[b.userId]

\* C1: when the table did not change during the call, an accepted booking in
\* the window whose organizer is in the map and attends it under the mapped
\* email is returned exactly once: it is in the owner results and is removed
\* from the attendee results.
C1_SelfBookedOnce ==
  (fPc = "returned" /\ ~fChanged) =>
    \A i \in BookingIds :
      SelfBooked(bookings[i], fArgs) =>
        /\ Occurrences(fReturn, i) = 1
        /\ i \in Ids(resultOne)
        /\ i \in Ids(resultTwo)
        /\ i \notin Ids(ResultTwoWithOrganizersRemoved(resultTwo, fArgs.userIdAndEmailMap))

C1_Witness ==
  /\ fPc = "returned" /\ ~fChanged
  /\ \E i \in BookingIds : SelfBooked(bookings[i], fArgs) /\ Occurrences(fReturn, i) = 1

\* C9: the call returns only when every read it issued was answered, and the
\* list is the owner answer, then the de-duplicated attendee answer, then the
\* pending answer, each as the engine gave it (on an unchanged table: as the
\* query selects it, whatever the order of the answers); without an
\* eventTypeId no third read is issued and the third segment is empty.
C9_MergeOrder ==
  /\ fPc = "returned" =>
       /\ fPending = {}
       /\ fReturn = resultOne
                    \o ResultTwoWithOrganizersRemoved(resultTwo, fArgs.userIdAndEmailMap)
                    \o resultThree
       /\ ~fChanged =>
            /\ resultOne = QueryAnswer(1, fArgs)
            /\ resultTwo = QueryAnswer(2, fArgs)
            /\ resultThree = IF fArgs.eventTypeId # NULL THEN QueryAnswer(3, fArgs) ELSE <<>>
  /\ (fPc # "idle" /\ fArgs.eventTypeId = NULL) => (3 \notin fIssued /\ resultThree = <<>>)
  /\ (fPc # "idle" /\ fArgs.eventTypeId # NULL) => fIssued = {1, 2, 3}

\* a call that returned an owner booking and a pending booking in that order
\* although the pending one has the smaller id
C9_Witness ==
  /\ fPc = "returned"
  /\ Len(fReturn) = 2
  /\ Len(resultOne) = 1 /\ Len(resultThree) = 1
  /\ fReturn[1].id > fReturn[2].id

\* C11: when the table did not change during the call, no booking id occurs
\* more than once in the returned list, for every map (also one with several
\* users, one organizing a booking and another attending it).
C11_NoDuplicateIds ==
  (fPc = "returned" /\ ~fChanged) =>
    \A i \in BookingIds : Occurrences(fReturn, i) <= 1

\* C12: in every interleaving of the three reads with writers, no booking of
\* the pending answer is also in the owner answer or in the attendee answer,
\* and so none of the pending segment is returned a second time.
C12_PendingNeverOverlaps ==
  fPc = "returned" =>
    /\ Ids(resultThree) \cap (Ids(resultOne) \cup Ids(resultTwo)) = {}
    /\ \A i \in Ids(resultThree) : Occurrences(fReturn, i) = 1

(***************************************************************************)
(* Properties of the team booking queries                                  *)
(***************************************************************************)
\* C3: for the same parameters on the same table, the number the call with
\* shouldReturnCount returns is the length of the list the call without it
\* returns.
C3_CountIsListLength ==
  (tCount # None /\ tList # None) => Val(tCount) = Len(Val(tList))

C3_Witness ==
  /\ tCount # None /\ tList # None
  /\ Val(tCount) = Len(Val(tList))
  /\ Len(Val(tList)) >= 2
  /\ \E i \in 1..Len(Val(tList)) : WhereManaged(Val(tList)[i], tArgs)

\* the bookings of any of the three categories the call asks for
TeamBookingIds(p) ==
  {i \in BookingIds :
     \/ WhereOwner(bookings[i], p)
     \/ WhereAttendee(bookings[i], p)
     \/ p.includeManagedEvents /\ WhereManaged(bookings[i], p)}

\* C7: the three categories are pairwise disjoint, so the count counts no
\* booking twice and the list holds no booking twice.
C7_CategoriesDisjoint ==
  /\ tCount # None =>
       /\ Val(tCount) = Cardinality(TeamBookingIds(tArgs))
       /\ \A i \in BookingIds :
            ~(WhereOwner(bookings[i], tArgs) /\ WhereAttendee(bookings[i], tArgs))
  /\ tList # None =>
       /\ \A i \in BookingIds : Occurrences(Val(tList), i) <= 1
       /\ \A i \in BookingIds :
            /\ ~(WhereOwner(bookings[i], tArgs) /\ WhereAttendee(bookings[i], tArgs))
            /\ ~(WhereOwner(bookings[i], tArgs) /\ WhereManaged(bookings[i], tArgs))
            /\ ~(WhereAttendee(bookings[i], tArgs) /\ WhereManaged(bookings[i], tArgs))

(***************************************************************************)
(* Properties of doesUserIdHaveAccessToBooking                             *)
(***************************************************************************)
\* the team of the booking's event type, NULL when it has no event type or
\* the event type has no team
TeamOfBooking(b) == IF b.eventTypeId = NULL THEN NULL ELSE EventTypes[b.eventTypeId].teamId

\* C8: the call returns false for a booking that does not exist; true for the
\* organizer, without asking for the team role; false for a non-organizer when
\* the booking has no event type or the event type no team; and otherwise what
\* the admin-of-team-or-parent-org check answers for the user and that team.
\* A non-organizer for whom the check is false is never granted access.
C8_Access ==
  aPc = "done" =>
    LET u == aArgs.userId
        id == aArgs.bookingId
    IN /\ id \notin DOMAIN bookings => (aReturn = Some(FALSE) /\ aAsked = <<>>)
       /\ (id \in DOMAIN bookings /\ bookings[id].userId = u) =>
            (aReturn = Some(TRUE) /\ aAsked = <<>>)
       /\ (id \in DOMAIN bookings /\ bookings[id].userId # u
             /\ TeamOfBooking(bookings[id]) = NULL) =>
            (aReturn = Some(FALSE) /\ aAsked = <<>>)
       /\ (id \in DOMAIN bookings /\ bookings[id].userId # u
             /\ TeamOfBooking(bookings[id]) # NULL) =>
            /\ aReturn = Some(<<u, TeamOfBooking(bookings[id])>> \in adminOf)
            /\ aAsked = <<[userId |-> u, teamId |-> TeamOfBooking(bookings[id])]>>
       /\ aReturn = Some(TRUE) =>
            /\ id \in DOMAIN bookings
            /\ \/ bookings[id].userId = u
               \/ /\ TeamOfBooking(bookings[id]) # NULL
                  /\ <<u, TeamOfBooking(bookings[id])>> \in adminOf

\* the organizer of a team booking got access although the role check would
\* have refused, and the check was not asked
C8_Witness ==
  /\ aPc = "done"
  /\ aReturn = Some(TRUE)
  /\ aAsked = <<>>
  /\ aArgs.bookingId \in DOMAIN bookings
  /\ TeamOfBooking(bookings[aArgs.bookingId]) # NULL
  /\ <<aArgs.userId, TeamOfBooking(bookings[aArgs.bookingId])>> \notin adminOf

(***************************************************************************)
(* Properties of getAllBookingsForRoundRobin                               *)
(***************************************************************************)
\* C2: every booking the call returns is ACCEPTED and of the requested event
\* type, whatever the users, window, basis, no-show flag and virtual queue; no
\* PENDING or CANCELLED booking is returned.
C2_OnlyAccepted ==
  rrPc = "done" =>
    \A i \in 1..Len(queueBookings) :
      /\ queueBookings[i].status = "ACCEPTED"
      /\ bookings[queueBookings[i].id].status \notin {"PENDING", "CANCELLED"}
      /\ bookings[queueBookings[i].id].eventTypeId = rrArgs.eventTypeId

\* a call that returned a booking and left out a pending or cancelled booking
\* of the same event type
C2_Witness ==
  /\ rrPc = "done"
  /\ Len(queueBookings) = 1
  /\ \E j \in BookingIds :
       /\ bookings[j].status # "ACCEPTED"
       /\ bookings[j].eventTypeId = rrArgs.eventTypeId
       /\ j \notin Ids(queueBookings)

\* C4: with a virtual queue, a booking the query matched is kept exactly when
\* its answer to the queue's field equals selectedOptionIds: two arrays of the
\* same length with the same element at every index, or two equal scalars of
\* one type; an array never equals a scalar.  Without a virtual queue the
\* matched bookings are returned as they are.
C4_QueueFilter ==
  rrPc = "done" =>
    /\ allBookings = AllBookings(rrArgs)
    /\ IF rrArgs.virtualQueuesData = None
       THEN queueBookings = allBookings
       ELSE queueBookings =
              SelectSeq(allBookings,
                        LAMBDA bk :
                          ResponseValue(bk, Val(rrArgs.virtualQueuesData))
                            = Val(rrArgs.virtualQueuesData).fieldOptionData.selectedOptionIds)

\* a two-option target kept the booking that answered the same list and
\* dropped the one that answered it in another order
C4_Witness ==
  /\ rrPc = "done"
  /\ rrArgs.virtualQueuesData # None
  /\ Len(Val(rrArgs.virtualQueuesData).fieldOptionData.selectedOptionIds.v) = 2
  /\ Len(allBookings) = 2
  /\ Len(queueBookings) = 1
  /\ \E i \in 1..2 :
       /\ IsArray(ResponseValue(allBookings[i], Val(rrArgs.virtualQueuesData)))
       /\ Len(ResponseValue(allBookings[i], Val(rrArgs.virtualQueuesData)).v) = 2
       /\ allBookings[i].id \notin Ids(queueBookings)

\* C13: with a virtual queue the call completes with a list for every set of
\* matched bookings, and a matched booking without a response payload or
\* without an entry for the queue's field is left out of the list.
C13_MissingFieldExcluded ==
  (rrPc # "idle" /\ rrArgs.virtualQueuesData # None) =>
    /\ rrPc = "done"
    /\ \A i \in 1..Len(allBookings) :
         ResponseValueThrows(allBookings[i], Val(rrArgs.virtualQueuesData))
           => allBookings[i].id \notin Ids(queueBookings)

\* C6: without includeNoShowInRRCalculation every returned booking is
\* attributable to a candidate who is not a no-show on it: its organizer is a
\* candidate and noShowHost is not true, or an attendee with a candidate's
\* email has noShow false.
C6_NoShowExcluded ==
  (rrPc = "done" /\ ~rrArgs.includeNoShowInRRCalculation) =>
    \A i \in 1..Len(queueBookings) :
      \/ /\ queueBookings[i].userId \in UserIdsOf(rrArgs.users)
         /\ bookings[queueBookings[i].id].noShowHost # Some(TRUE)
      \/ \E at \in queueBookings[i].attendees :
           at.email \in UserEmailsOf(rrArgs.users) /\ at.noShow = FALSE

\* the conditions of the where clause other than the time window
WhereButTimeWindow(b, a) ==
  /\ WhereHostOrAttendee(b, a)
  /\ WhereAttendeeShowed(b, a)
  /\ WhereStatusAndEventType(b, a)
  /\ WhereChosenRoute(b, a)

\* the inclusive bounds that are given, on a timestamp
InWindow(t, a) ==
  /\ IsSome(a.startDate) => t >= Val(a.startDate)
  /\ IsSome(a.endDate) => t <= Val(a.endDate)

\* C10: the bookings the read matches are those that meet the other
\* conditions and whose createdAt (CREATED_AT basis) or startTime (any other
\* basis) is within the inclusive bounds given; the other timestamp is not
\* constrained, and without a bound neither is.
C10_TimeBasis ==
  rrPc # "idle" =>
    Ids(allBookings) =
      {i \in BookingIds :
         /\ WhereButTimeWindow(bookings[i], rrArgs)
         /\ IF rrArgs.startDate = None /\ rrArgs.endDate = None THEN TRUE
            ELSE IF rrArgs.rrTimestampBasis = "CREATED_AT"
                 THEN InWindow(bookings[i].createdAt, rrArgs)
                 ELSE InWindow(bookings[i].startTime, rrArgs)}

\* on the CREATED_AT basis a booking was returned whose start time is outside
\* the window and another was left out whose start time is inside
C10_Witness ==
  /\ rrPc = "done"
  /\ rrArgs.rrTimestampBasis = "CREATED_AT"
  /\ IsSome(rrArgs.startDate) /\ IsSome(rrArgs.endDate)
  /\ \E i \in 1..Len(queueBookings) : ~InWindow(queueBookings[i].startTime, rrArgs)
  /\ \E j \in BookingIds : j \notin Ids(queueBookings) /\ InWindow(bookings[j].startTime, rrArgs)

(***************************************************************************)
(* Properties of RecentFeedbackTable                                       *)
(***************************************************************************)
\* one card that holds one table, of this data
OneCardWithTable(r, data) ==
  /\ r.tag = "ChartCard"
  /\ Len(r.children) = 1
  /\ r.children[1] = FeedbackTable(data)

\* C5 as stated: the loading placeholder while the query is pending, nothing
\* when it failed or succeeded with an empty result, one card with a table when
\* it succeeded with non-empty data.
C5_RendersNothingForEmpty ==
  /\ qStatus = "pending" => rendered = LoadingInsight
  /\ qStatus = "error" => rendered = Nothing
  /\ (qStatus = "success" /\ (qData = None \/ Val(qData) = <<>>)) => rendered = Nothing
  /\ (qStatus = "success" /\ qData # None /\ Val(qData) # <<>>) =>
       OneCardWithTable(rendered, Val(qData))

\* C5 amended: the loading placeholder while the query is pending, nothing
\* when it failed or succeeded without data (null or undefined), and one card
\* with a table when it succeeded with a list, empty or not.
C5_RendersCardForAnyList ==
  /\ qStatus = "pending" => rendered = LoadingInsight
  /\ qStatus = "error" => rendered = Nothing
  /\ (qStatus = "success" /\ qData = None) => rendered = Nothing
  /\ (qStatus = "success" /\ qData # None) => OneCardWithTable(rendered, Val(qData))

\* the query succeeded with an empty list and the card is rendered
C5_Witness ==
  /\ qStatus = "success"
  /\ qData = Some(<<>>)
  /\ OneCardWithTable(rendered, <<>>)

=============================================================================
